---- MODULE Spec2Model ----
(***************************************************************************)
(* Model of controlador_temperatura.ino: a thermostat that polls a DHT22   *)
(* sensor, two touch buttons, drives a MOSFET and renders a number on an   *)
(* 8x8 LED matrix.  The file holds two variants of the sketch whose        *)
(* controller code is identical; they differ in the font and in            *)
(* displayNumber (4-row font written with setRow, lines 213-244, and       *)
(* 3-column font written with setColumn, lines 460-500).                   *)
(*                                                                         *)
(* Temperatures (float in the code) are integers in tenths of a degree,    *)
(* the resolution of the DHT22.  A reading is a record [nan, v].           *)
(* millis() is the variable now; it keeps one value during a pass.         *)
(*                                                                         *)
(* Specifications: Spec (setup and passes of loop under a free             *)
(* environment), SpecDisplay (displayNumber as one step), SpecDraw         *)
(* (displayNumber call by call), SpecScenario (the controller under a      *)
(* scripted environment), SpecScan (the display scanner of the             *)
(* specification, absent from the sources), SpecWrap (the elapsed-time     *)
(* comparisons across an overflow of the clock).                           *)
(***************************************************************************)
EXTENDS Integers, Sequences, FiniteSets, TLC

\* ---------------------------------------------------------------- bounds
MaxPasses == 3

ArgSpan == 12

\* scripted scenario: increase presses, and passes after the last release
ScenarioPresses == 5

ScenarioTail == 3

\* scan ticks followed
MaxTicks == 17

\* bits of the millisecond clock followed; unsigned long has 32
ClockBits == 16

\* ------------------------------------------------------ program constants
SENSOR_READ_INTERVAL == 2000

DISPLAY_TIMEOUT == 10000

DEBOUNCE_DELAY == 50

InitialSetTemperature == 25

HIGH == TRUE

LOW == FALSE

\* ------------------------------------------------------------ environment
\* Clock advances between two passes of loop(): one tick, the debounce
\* window, one tick short of the sensor interval, the display timeout.
Deltas == {1, DEBOUNCE_DELAY, SENSOR_READ_INTERVAL - 1, DISPLAY_TIMEOUT}

NaN == [nan |-> TRUE, v |-> 0]

Val(x) == [nan |-> FALSE, v |-> x]

\* dht.readTemperature(): -4.6, 20.0, 29.6 degrees, or NaN
TempReadings == {NaN, Val(-46), Val(200), Val(296)}

\* dht.readHumidity(): 50.0 %, or NaN
HumReadings == {NaN, Val(500)}

isnan(x) == x.nan

\* ------------------------------------------------------------------ fonts
\* font[10][3], one byte per column, bit 7 is the top row
font ==
  << <<62, 33, 62>>, <<16, 63, 16>>, <<50, 41, 38>>, <<34, 41, 62>>,
     <<12, 10, 63>>, <<47, 41, 57>>, <<62, 41, 56>>, <<3, 4, 60>>,
     <<62, 41, 62>>, <<14, 41, 62>> >>

font_minus == <<8, 8>>

\* font[10][4] of the 4-row variant, one nibble per row
font4 ==
  << <<6, 9, 9, 6>>, <<2, 6, 2, 2>>, <<6, 1, 2, 7>>, <<6, 1, 6, 1>>,
     <<9, 9, 15, 1>>, <<15, 8, 6, 1>>, <<6, 8, 11, 4>>, <<15, 1, 2, 4>>,
     <<6, 9, 6, 9>>, <<2, 9, 7, 1>> >>

font4_minus == <<0, 6, 6, 0>>

\* ------------------------------------------------------- LED matrix frame
\* A frame is the set of lit LEDs <<row, column>>.
Bit(value, k) == (value \div (2 ^ k)) % 2

ClearDisplay == {}

\* lc.setColumn(0, col, value): bit 7 of value is row 0
SetColumn(f, col, value) ==
  {c \in f : c[2] # col} \cup {<<r, col>> : r \in {q \in 0..7 : Bit(value % 256, 7 - q) = 1}}

\* lc.setRow(0, row, value): bit 7 of value is column 0
SetRow(f, row, value) ==
  {c \in f : c[1] # row} \cup {<<row, k>> : k \in {q \in 0..7 : Bit(value % 256, 7 - q) = 1}}

\* for (i = 0; i < count; i++) lc.setColumn(0, i + start, glyph[i]);
RECURSIVE SetColumns(_, _, _, _)
SetColumns(f, start, glyph, count) ==
  IF count = 0 THEN f
  ELSE SetColumn(SetColumns(f, start, glyph, count - 1), start + count - 1, glyph[count])

\* for (i = 0; i < count; i++) lc.setRow(0, i + 2, rows[i]);
RECURSIVE SetRows(_, _, _)
SetRows(f, rows, count) ==
  IF count = 0 THEN f
  ELSE SetRow(SetRows(f, rows, count - 1), count + 1, rows[count])

\* abs() left out
absOmitted(n) == n

abs(n) == IF n < 0 THEN -n ELSE n

\* if (number > 99) number = 99; if (number < -9) number = -9;
ClampLowOmitted(number) == IF number > 99 THEN 99 ELSE number

Clamp(number) ==
  LET n1 == IF number > 99 THEN 99 ELSE number
  IN  IF n1 < -9 THEN -9 ELSE n1

\* lc.clearDisplay(0) left out: what was lit stays lit
ClearDisplayKept(f) == f

\* lc.clearDisplay(0) on a matrix showing f: every LED off
clearDisplay(f) == ClearDisplay

\* a single digit drawn one column further right
SingleDigitColumnShifted == 2 + 1

\* lc.setColumn(0, i + 2, font[ones][i]): first column of a single digit
SingleDigitColumn == 2

\* displayNumber of the 3-column font variant, called on a matrix showing f
DisplayNumberOn(f, number) ==
  LET n == Clamp(number)
  IN  IF n >= 10
        THEN LET tens == n \div 10
                 ones == n % 10
             IN  SetColumns(SetColumns(clearDisplay(f), 0, font[tens + 1], 3),
                            4, font[ones + 1], 3)
      ELSE IF n >= 0
        THEN LET ones == n % 10
             IN  SetColumns(clearDisplay(f), SingleDigitColumn, font[ones + 1], 3)
      ELSE LET ones == abs(n) % 10
           IN  SetColumns(SetColumns(clearDisplay(f), 0, font_minus, 2),
                          3, font[ones + 1], 3)

\* what displayNumber draws on a dark matrix
DisplayNumber(number) == DisplayNumberOn(ClearDisplay, number)

\* displayNumber of the 4-row font variant, called on a matrix showing f; the
\* two nibbles of row_data are disjoint, so (a << 4) | b is a * 16 + b
DisplayNumber4On(f, number) ==
  LET n == Clamp(number)
  IN  IF n >= 10
        THEN LET tens == n \div 10
                 ones == n % 10
             IN  SetRows(clearDisplay(f),
                         [i \in 1..4 |-> font4[tens + 1][i] * 16 + font4[ones + 1][i]], 4)
      ELSE IF n >= 0
        THEN LET ones == n % 10
             IN  SetRows(clearDisplay(f), [i \in 1..4 |-> font4[ones + 1][i] * 4], 4)
      ELSE LET ones == abs(n) % 10
           IN  SetRows(clearDisplay(f),
                       [i \in 1..4 |-> font4_minus[i] * 16 + font4[ones + 1][i]], 4)

DisplayNumber4(number) == DisplayNumber4On(ClearDisplay, number)

\* ------------------------------------------------------------------ state
VARIABLES
  pc,                   \* next call: "setup", "idle" (between passes),
                        \* "handleButtons", "readSensor", "controlMosfet", "updateDisplay"
  now,                  \* millis()
  upPin, downPin,       \* digitalRead(UP_BUTTON_PIN), digitalRead(DOWN_BUTTON_PIN)
  currentTemperature, currentHumidity, userSetTemperature,
  displayShowsSetTemp, lastInteractionTime, lastSensorReadTime,
  lastUpButtonState, lastDownButtonState, lastDebounceTime,
  mosfet,               \* level of MOSFET_PIN
  frame, frame4,        \* LED matrix of the 3-column and of the 4-row variant
  number,               \* argument of the last displayNumber call
  passes,               \* history: passes of loop() started
  accepted,             \* history: accepted edges per button
  lastAccepted,         \* history: buttons whose edge the last poll accepted
  edgeButtons,          \* history: buttons of the most recent accepted edge
  pressKind,            \* history: per button, how the press now held began
  raw,                  \* history: per button, the first two raw presses
  okReads,              \* history: successful sensor reads
  attempts,             \* history: clock at the last two read attempts
  readOutcome,          \* history: readSensor of this pass: "skipped", "failed", "ok"
  tempBefore,           \* history: currentTemperature when readSensor was entered
  step,                 \* displayNumber drawn write by write: writes done so far
  shownBefore,          \* history: the frame shown when displayNumber was entered
  scanCursor,           \* display scanner: the column being driven
  scanTicks,            \* history: scan ticks so far
  scanned,              \* history: the columns driven by the last eight ticks
  trueNow,              \* history: the clock had it no width
  trueStamp,            \* history: the clock, had it no width, when the timestamps were taken
  decided               \* the three elapsed-time decisions last taken

ctrl == <<currentTemperature, currentHumidity, userSetTemperature,
          displayShowsSetTemp, lastInteractionTime, lastSensorReadTime,
          lastUpButtonState, lastDownButtonState, lastDebounceTime, mosfet,
          frame, frame4, number>>

hist == <<passes, accepted, lastAccepted, edgeButtons, pressKind, raw,
          okReads, attempts, readOutcome, tempBefore>>

aux == <<step, shownBefore, scanCursor, scanTicks, scanned, trueNow, trueStamp, decided>>

vars == <<pc, now, upPin, downPin, ctrl, hist, aux>>

Buttons == {"up", "down"}

Modulus == 2 ^ ClockBits

\* the difference taken in signed arithmetic
ElapsedSigned(t, since) == t - since

\* unsigned long difference millis() - since
Elapsed(t, since) == (t - since) % Modulus

\* round(x) of Arduino.h on tenths: ((x)>=0 ? (long)((x)+0.5) : (long)((x)-0.5))
\* (int) x: the fraction dropped
roundTruncates(x) == IF x >= 0 THEN x \div 10 ELSE -((-x) \div 10)

round(x) == IF x >= 0 THEN (x + 5) \div 10 ELSE -((5 - x) \div 10)

\* ------------------------------------------------------------- predicates
\* (millis() - lastDebounceTime) > DEBOUNCE_DELAY
DebounceOpenAtDelay(t, since) == Elapsed(t, since) >= DEBOUNCE_DELAY

DebounceDisabled(t, since) == TRUE

DebounceOpen(t, since) == Elapsed(t, since) > DEBOUNCE_DELAY

\* millis() - lastSensorReadTime >= SENSOR_READ_INTERVAL
SensorDue(t, since) == Elapsed(t, since) >= SENSOR_READ_INTERVAL

\* millis() - lastInteractionTime > DISPLAY_TIMEOUT
DisplayExpiredAtTimeout(t, since) == Elapsed(t, since) >= DISPLAY_TIMEOUT

\* the operands of the subtraction exchanged
DisplayExpiredReversed(t, since) == Elapsed(since, t) > DISPLAY_TIMEOUT

DisplayExpired(t, since) == Elapsed(t, since) > DISPLAY_TIMEOUT

\* userSetTemperature++ on an edge of the increase button, userSetTemperature--
\* on an edge of the decrease button
AdjustSetpointBothUp(setpoint, upEdge, downEdge) ==
  setpoint + (IF upEdge THEN 1 ELSE 0) + (IF downEdge THEN 1 ELSE 0)

\* the decrease branch under an else: one edge per poll
AdjustSetpointUpWins(setpoint, upEdge, downEdge) ==
  setpoint + (IF upEdge THEN 1 ELSE IF downEdge THEN -1 ELSE 0)

AdjustSetpoint(setpoint, upEdge, downEdge) ==
  setpoint + (IF upEdge THEN 1 ELSE 0) - (IF downEdge THEN 1 ELSE 0)

\* currentTemperature > 0 && currentTemperature < userSetTemperature
DriveNoGuard(temp, setpoint) == temp < setpoint * 10

DriveWhenAbove(temp, setpoint) == temp > 0 /\ temp > setpoint * 10

Drive(temp, setpoint) == temp > 0 /\ temp < setpoint * 10

\* tempToDisplay of updateDisplay, after the timeout check
TempToDisplay(shows, setpoint, temp) == IF shows THEN setpoint ELSE round(temp)

\* --------------------------------------------------------------- initial
\* the variables a specification does not use keep these values
AuxInit ==
  /\ step = 0
  /\ scanCursor = 0
  /\ scanTicks = 0
  /\ scanned = <<>>
  /\ trueNow = 0
  /\ trueStamp = 0
  /\ decided = <<FALSE, FALSE, FALSE>>

NoPress == [n |-> 0, t1 |-> 0, gap |-> "none", acc1 |-> FALSE, armed2 |-> FALSE]

Init ==
  /\ pc = "setup"
  /\ now = 0
  /\ upPin = LOW
  /\ downPin = LOW
  /\ currentTemperature = 0
  /\ currentHumidity = 0
  /\ userSetTemperature = InitialSetTemperature
  /\ displayShowsSetTemp = FALSE
  /\ lastInteractionTime = 0
  /\ lastSensorReadTime = 0
  /\ lastUpButtonState = LOW
  /\ lastDownButtonState = LOW
  /\ lastDebounceTime = 0
  /\ mosfet = LOW
  /\ frame = ClearDisplay
  /\ frame4 = ClearDisplay
  /\ number = 0
  /\ passes = 0
  /\ accepted = [b \in Buttons |-> 0]
  /\ lastAccepted = {}
  /\ edgeButtons = {}
  /\ pressKind = [b \in Buttons |-> "none"]
  /\ raw = [b \in Buttons |-> NoPress]
  /\ okReads = 0
  /\ attempts = <<>>
  /\ readOutcome = "skipped"
  /\ tempBefore = 0
  /\ shownBefore = ClearDisplay
  /\ AuxInit

\* ---------------------------------------------------------- history helpers
AcceptedTotal == accepted["up"] + accepted["down"]

\* how a press that begins at clock t on button b is classified
KindOfPress(b, t) ==
  IF AcceptedTotal > 0 /\ Elapsed(t, lastDebounceTime) <= DEBOUNCE_DELAY
    THEN (IF b \in edgeButtons THEN "windowSame" ELSE "windowOther")
    ELSE "open"

NextKind(b, old, new, t) ==
  IF new = LOW THEN "none"
  ELSE IF old = LOW THEN KindOfPress(b, t)
  ELSE pressKind[b]

\* the first two raw presses of a button: the time of the first, whether the
\* poll of its own pass accepted it (acc1), whether the second came within
\* DEBOUNCE_DELAY of the first or beyond (gap), and whether the level last
\* sampled before the second was LOW (armed2); n = 3 stands for "more than two"
NextRaw(b, old, new, sampled, t) ==
  IF ~(old = LOW /\ new = HIGH) THEN raw[b]
  ELSE IF raw[b].n = 0 THEN [raw[b] EXCEPT !.n = 1, !.t1 = t]
  ELSE IF raw[b].n = 1
    THEN [raw[b] EXCEPT !.n = 2, !.t1 = 0, !.armed2 = (sampled = LOW),
            !.gap = IF t - raw[b].t1 <= DEBOUNCE_DELAY THEN "within" ELSE "beyond"]
  ELSE [NoPress EXCEPT !.n = 3]

RawAfterPoll(b, edge) ==
  IF edge /\ raw[b].n = 1 /\ raw[b].t1 = now THEN [raw[b] EXCEPT !.acc1 = TRUE]
  ELSE raw[b]

\* ------------------------------------------------------------- environment
\* Between two passes the clock advances and the two inputs take any level.
Environment ==
  /\ pc = "idle"
  /\ passes < MaxPasses
  /\ \E d \in Deltas, u \in BOOLEAN, dn \in BOOLEAN :
       /\ now' = now + d
       /\ upPin' = u
       /\ downPin' = dn
       /\ pressKind' = [b \in Buttons |->
            IF b = "up" THEN NextKind(b, upPin, u, now + d)
                        ELSE NextKind(b, downPin, dn, now + d)]
       /\ raw' = [b \in Buttons |->
            IF b = "up" THEN NextRaw(b, upPin, u, lastUpButtonState, now + d)
                        ELSE NextRaw(b, downPin, dn, lastDownButtonState, now + d)]
  /\ passes' = passes + 1
  /\ pc' = "handleButtons"
  /\ UNCHANGED <<ctrl, accepted, lastAccepted, edgeButtons, okReads, attempts,
                 readOutcome, tempBefore, aux>>

\* ---------------------------------------------------------- handleButtons
HandleButtons ==
  /\ pc = "handleButtons"
  /\ LET open == DebounceOpen(now, lastDebounceTime)
         upEdge == open /\ upPin # lastUpButtonState /\ upPin = HIGH
         downEdge == open /\ downPin # lastDownButtonState /\ downPin = HIGH
         edges == {b \in Buttons : (b = "up" /\ upEdge) \/ (b = "down" /\ downEdge)}
     IN  /\ userSetTemperature' = AdjustSetpoint(userSetTemperature, upEdge, downEdge)
         /\ lastInteractionTime' = IF edges # {} THEN now ELSE lastInteractionTime
         /\ displayShowsSetTemp' = IF edges # {} THEN TRUE ELSE displayShowsSetTemp
         /\ lastDebounceTime' = IF edges # {} THEN now ELSE lastDebounceTime
         /\ lastUpButtonState' = IF open THEN upPin ELSE lastUpButtonState
         /\ lastDownButtonState' = IF open THEN downPin ELSE lastDownButtonState
         /\ accepted' = [b \in Buttons |-> accepted[b] + (IF b \in edges THEN 1 ELSE 0)]
         /\ lastAccepted' = edges
         /\ edgeButtons' = IF edges # {} THEN edges ELSE edgeButtons
         /\ raw' = [b \in Buttons |-> RawAfterPoll(b, b \in edges)]
  /\ pc' = "readSensor"
  /\ UNCHANGED <<now, upPin, downPin, currentTemperature, currentHumidity,
                 lastSensorReadTime, mosfet, frame, frame4, number, passes,
                 pressKind, okReads, attempts, readOutcome, tempBefore, aux>>

\* ------------------------------------------------------------- readSensor
Last2(s) == IF Len(s) <= 2 THEN s ELSE SubSeq(s, Len(s) - 1, Len(s))

\* readSensor() when the sensor answers h and t.  The history records the
\* sensor's answer, not the code's verdict on it.
ReadSensorStampOnSuccess(h, t) ==
  LET invalid == isnan(h) \/ isnan(t)
  IN  /\ tempBefore' = currentTemperature
      /\ IF SensorDue(now, lastSensorReadTime)
           THEN /\ lastSensorReadTime' = IF invalid THEN lastSensorReadTime ELSE now
                /\ attempts' = Last2(Append(attempts, now))
                /\ readOutcome' = IF invalid THEN "failed" ELSE "ok"
                /\ okReads' = IF invalid THEN okReads ELSE okReads + 1
                /\ currentTemperature' = IF invalid THEN currentTemperature ELSE t.v
                /\ currentHumidity' = IF invalid THEN currentHumidity ELSE h.v
           ELSE /\ readOutcome' = "skipped"
                /\ UNCHANGED <<lastSensorReadTime, attempts, okReads,
                               currentTemperature, currentHumidity>>

ReadSensorNoNaNCheck(h, t) ==
  LET invalid == isnan(h) \/ isnan(t)
  IN  /\ tempBefore' = currentTemperature
      /\ IF SensorDue(now, lastSensorReadTime)
           THEN /\ lastSensorReadTime' = now
                /\ attempts' = Last2(Append(attempts, now))
                /\ readOutcome' = IF invalid THEN "failed" ELSE "ok"
                /\ okReads' = IF invalid THEN okReads ELSE okReads + 1
                /\ currentTemperature' = t.v
                /\ currentHumidity' = h.v
           ELSE /\ readOutcome' = "skipped"
                /\ UNCHANGED <<lastSensorReadTime, attempts, okReads,
                               currentTemperature, currentHumidity>>

ReadSensorCall(h, t) ==
  LET invalid == isnan(h) \/ isnan(t)
  IN  /\ tempBefore' = currentTemperature
      /\ IF SensorDue(now, lastSensorReadTime)
           THEN /\ lastSensorReadTime' = now
                /\ attempts' = Last2(Append(attempts, now))
                /\ readOutcome' = IF invalid THEN "failed" ELSE "ok"
                /\ okReads' = IF invalid THEN okReads ELSE okReads + 1
                /\ currentTemperature' = IF invalid THEN currentTemperature ELSE t.v
                /\ currentHumidity' = IF invalid THEN currentHumidity ELSE h.v
           ELSE /\ readOutcome' = "skipped"
                /\ UNCHANGED <<lastSensorReadTime, attempts, okReads,
                               currentTemperature, currentHumidity>>

\* the answers the sensor can give; none is drawn when no read is due
Answers ==
  IF SensorDue(now, lastSensorReadTime)
    THEN HumReadings \X TempReadings
    ELSE {<<NaN, NaN>>}

ReadSensor ==
  /\ pc = "readSensor"
  /\ \E a \in Answers : ReadSensorCall(a[1], a[2])
  /\ pc' = "controlMosfet"
  /\ UNCHANGED <<now, upPin, downPin, userSetTemperature, displayShowsSetTemp,
                 lastInteractionTime, lastUpButtonState, lastDownButtonState,
                 lastDebounceTime, mosfet, frame, frame4, number, passes,
                 accepted, lastAccepted, edgeButtons, pressKind, raw, aux>>

\* ---------------------------------------------------------- controlMosfet
ControlMosfet ==
  /\ pc = "controlMosfet"
  /\ mosfet' = IF Drive(currentTemperature, userSetTemperature) THEN HIGH ELSE LOW
  /\ pc' = "updateDisplay"
  /\ UNCHANGED <<now, upPin, downPin, currentTemperature, currentHumidity,
                 userSetTemperature, displayShowsSetTemp, lastInteractionTime,
                 lastSensorReadTime, lastUpButtonState, lastDownButtonState,
                 lastDebounceTime, frame, frame4, number, hist, aux>>

\* ---------------------------------------------------------- updateDisplay
\* updateDisplay() with currentTemperature = temp
UpdateDisplayCall(temp) ==
  LET shows == displayShowsSetTemp /\ ~DisplayExpired(now, lastInteractionTime)
      tempToDisplay == TempToDisplay(shows, userSetTemperature, temp)
  IN  /\ displayShowsSetTemp' = shows
      /\ number' = tempToDisplay
      /\ frame' = DisplayNumberOn(frame, tempToDisplay)
      /\ frame4' = DisplayNumber4On(frame4, tempToDisplay)

UpdateDisplay ==
  /\ pc = "updateDisplay"
  /\ UpdateDisplayCall(currentTemperature)
  /\ pc' = "idle"
  /\ UNCHANGED <<now, upPin, downPin, currentTemperature, currentHumidity,
                 userSetTemperature, lastInteractionTime, lastSensorReadTime,
                 lastUpButtonState, lastDownButtonState, lastDebounceTime,
                 mosfet, hist, aux>>

\* ------------------------------------------------------------------ setup
\* digitalWrite(MOSFET_PIN, LOW); lc.clearDisplay(0); readSensor(); updateDisplay();
Setup ==
  /\ pc = "setup"
  /\ mosfet' = LOW
  /\ \E a \in Answers : ReadSensorCall(a[1], a[2])
  /\ UpdateDisplayCall(currentTemperature')
  /\ pc' = "idle"
  /\ UNCHANGED <<now, upPin, downPin, userSetTemperature, lastInteractionTime,
                 lastUpButtonState, lastDownButtonState, lastDebounceTime,
                 passes, accepted, lastAccepted, edgeButtons, pressKind, raw, aux>>

Next ==
  \/ Setup
  \/ Environment
  \/ HandleButtons
  \/ ReadSensor
  \/ ControlMosfet
  \/ UpdateDisplay

Spec == Init /\ [][Next]_vars

\* ------------------------------------------------ displayNumber on its own
\* The numbers displayNumber is applied to, and the frames it may find.
Numbers == (-9 - ArgSpan)..(99 + ArgSpan)

PreviousFrames == {ClearDisplay, DisplayNumber(88)}

InitDisplay ==
  /\ pc = "displayNumber"
  /\ number \in Numbers
  /\ frame \in PreviousFrames
  /\ frame4 = ClearDisplay
  /\ now = 0
  /\ upPin = LOW
  /\ downPin = LOW
  /\ currentTemperature = 0
  /\ currentHumidity = 0
  /\ userSetTemperature = InitialSetTemperature
  /\ displayShowsSetTemp = FALSE
  /\ lastInteractionTime = 0
  /\ lastSensorReadTime = 0
  /\ lastUpButtonState = LOW
  /\ lastDownButtonState = LOW
  /\ lastDebounceTime = 0
  /\ mosfet = LOW
  /\ passes = 0
  /\ accepted = [b \in Buttons |-> 0]
  /\ lastAccepted = {}
  /\ edgeButtons = {}
  /\ pressKind = [b \in Buttons |-> "none"]
  /\ raw = [b \in Buttons |-> NoPress]
  /\ okReads = 0
  /\ attempts = <<>>
  /\ readOutcome = "skipped"
  /\ tempBefore = 0
  /\ shownBefore = frame
  /\ AuxInit

rest == <<now, upPin, downPin, currentTemperature, currentHumidity,
          userSetTemperature, displayShowsSetTemp, lastInteractionTime,
          lastSensorReadTime, lastUpButtonState, lastDownButtonState,
          lastDebounceTime, mosfet, hist>>

\* displayNumber(number) in both variants
DisplayNumberCall ==
  /\ pc = "displayNumber"
  /\ frame' = DisplayNumberOn(frame, number)
  /\ frame4' = DisplayNumber4On(frame4, number)
  /\ pc' = "displayed"
  /\ UNCHANGED <<number, rest, aux>>

\* the caller picks the next number; the matrix keeps the frame
NextNumber ==
  /\ pc = "displayed"
  /\ \E n \in Numbers : number' = n
  /\ shownBefore' = frame
  /\ pc' = "displayNumber"
  /\ UNCHANGED <<frame, frame4, rest, step, scanCursor, scanTicks, scanned,
                 trueNow, trueStamp, decided>>

NextDisplay ==
  \/ DisplayNumberCall
  \/ NextNumber

SpecDisplay == InitDisplay /\ [][NextDisplay]_vars

\* ================================================================= claims
EndOfPass == pc = "idle" /\ passes > 0

C2_OffUntilFirstRead ==
  okReads = 0 => (currentTemperature = 0 /\ mosfet = LOW)

C2_Witness ==
  /\ EndOfPass
  /\ okReads = 0
  /\ readOutcome = "failed"
  /\ userSetTemperature = InitialSetTemperature + 2

\* C3: a failed sensor read leaves currentTemperature as it was before the
\* attempt, and the actuator output and the displayed number at the end of
\* that pass are what the value from before the attempt gives.
C3_FailedReadRetainsValue ==
  readOutcome = "failed" =>
    /\ currentTemperature = tempBefore
    /\ EndOfPass =>
         /\ mosfet = HIGH <=> (tempBefore > 0 /\ tempBefore < userSetTemperature * 10)
         /\ number = (IF displayShowsSetTemp THEN userSetTemperature
                                             ELSE round(tempBefore))
         /\ frame = DisplayNumber(number)

C3_Witness ==
  /\ EndOfPass
  /\ readOutcome = "failed"
  /\ tempBefore = 200
  /\ mosfet = HIGH
  /\ number = 20

\* C4: two consecutive sensor read attempts, successful or failed, are at
\* least SENSOR_READ_INTERVAL apart, and the timestamp is the clock of the
\* last attempt, so a failed attempt is not retried earlier.
C4_AttemptsSpaced ==
  /\ Len(attempts) = 2 => attempts[2] - attempts[1] >= SENSOR_READ_INTERVAL
  /\ Len(attempts) > 0 => lastSensorReadTime = attempts[Len(attempts)]

C4_Witness ==
  /\ Len(attempts) = 2
  /\ attempts[2] - attempts[1] = SENSOR_READ_INTERVAL
  /\ okReads = 0

Other(b) == IF b = "up" THEN "down" ELSE "up"

Step(b) == IF b = "up" THEN 1 ELSE -1

\* Button b has seen exactly two raw presses, the first accepted by the poll
\* of the pass in which it occurred, both polled, the other button untouched.
TwoPresses(b) ==
  /\ raw[b].n = 2
  /\ raw[b].acc1
  /\ raw[Other(b)].n = 0
  /\ pc # "handleButtons"

\* C5 as claimed: two raw presses of one button within DEBOUNCE_DELAY of
\* each other give exactly one accepted edge (setpoint changed by 1), two raw
\* presses more than DEBOUNCE_DELAY apart give exactly two (changed by 2).
C5_AsClaimed ==
  \A b \in Buttons :
    TwoPresses(b) =>
      LET k == IF raw[b].gap = "within" THEN 1 ELSE 2
      IN  /\ accepted[b] = k
          /\ userSetTemperature = InitialSetTemperature + k * Step(b)

\* C5 amended: once the first press has been accepted, a second raw press
\* within DEBOUNCE_DELAY of it gives no further edge; a second raw press more
\* than DEBOUNCE_DELAY later gives a second edge exactly when a poll has
\* sampled the input LOW between the two presses.
C5_SecondPressNeedsSampledRelease ==
  \A b \in Buttons :
    TwoPresses(b) =>
      LET k == IF raw[b].gap = "beyond" /\ raw[b].armed2 THEN 2 ELSE 1
      IN  /\ accepted[b] = k
          /\ userSetTemperature = InitialSetTemperature + k * Step(b)
          /\ raw[b].gap = "within" => ~raw[b].armed2

C5_Witness ==
  /\ TwoPresses("up")
  /\ raw["up"].gap = "beyond"
  /\ raw["up"].armed2
  /\ accepted["up"] = 2
  /\ userSetTemperature = InitialSetTemperature + 2

C5_WitnessWithin ==
  TwoPresses("up") /\ raw["up"].gap = "within" /\ accepted["up"] = 1

Pin(b) == IF b = "up" THEN upPin ELSE downPin

LastSampled(b) == IF b = "up" THEN lastUpButtonState ELSE lastDownButtonState

C7_AsClaimed ==
  (EndOfPass /\ AcceptedTotal > 0) =>
    (displayShowsSetTemp <=> Elapsed(now, lastInteractionTime) < DISPLAY_TIMEOUT)

\* C7 amended: the mode at the end of a pass is "showing setpoint" while the
\* elapsed time is at most DISPLAY_TIMEOUT and "showing current reading" from
\* the first pass at which it exceeds DISPLAY_TIMEOUT; the check runs on
\* every pass, also on those whose poll falls in the debounce window.
C7_RevertsAfterTimeout ==
  (EndOfPass /\ AcceptedTotal > 0) =>
    (displayShowsSetTemp <=> Elapsed(now, lastInteractionTime) <= DISPLAY_TIMEOUT)

C7_Witness ==
  /\ EndOfPass
  /\ AcceptedTotal > 0
  /\ Elapsed(now, lastInteractionTime) = DISPLAY_TIMEOUT
  /\ displayShowsSetTemp
  /\ number = userSetTemperature

C7_WitnessReverted ==
  /\ EndOfPass
  /\ AcceptedTotal > 0
  /\ Elapsed(now, lastInteractionTime) = DISPLAY_TIMEOUT + 1
  /\ ~displayShowsSetTemp

\* C8: only handleButtons modifies the setpoint; each accepted edge changes it
\* by +1 (increase) or -1 (decrease), so it always equals 25 plus the accepted
\* increase edges minus the accepted decrease edges.
C8_SetpointOnlyByButtons ==
  /\ [](userSetTemperature = 25 + accepted["up"] - accepted["down"])
  /\ [][pc # "handleButtons" => userSetTemperature' = userSetTemperature]_vars
  /\ [][\A b \in Buttons : accepted'[b] - accepted[b] \in {0, 1}]_vars
  /\ [][(accepted' = [accepted EXCEPT !["up"] = @ + 1]) =>
          userSetTemperature' = userSetTemperature + 1]_vars
  /\ [][(accepted' = [accepted EXCEPT !["down"] = @ + 1]) =>
          userSetTemperature' = userSetTemperature - 1]_vars

C8_Witness ==
  /\ accepted["down"] = 2
  /\ accepted["up"] = 1
  /\ userSetTemperature = 24

\* ------------------------------------------------------------ frames read
ColumnBits(f, c) == {r \in 0..7 : <<r, c>> \in f}

GlyphBits(value) == {r \in 0..7 : Bit(value, 7 - r) = 1}

Blank(f, c) == ColumnBits(f, c) = {}

InBounds(f) == f \subseteq ((0..7) \X (0..7))

\* columns start .. start + Len(glyph) - 1 of f show glyph
Shows(f, start, glyph) ==
  \A i \in 1..Len(glyph) : ColumnBits(f, start + i - 1) = GlyphBits(glyph[i])

\* C9: every n > 99 gives the frame of 99 and every n < -9 gives the frame of
\* -9, in both variants of displayNumber; no value is rejected (a number is
\* rendered for each).
C9_Saturation ==
  pc = "displayed" =>
    /\ number > 99 => (frame = DisplayNumber(99) /\ frame4 = DisplayNumber4(99))
    /\ number < -9 => (frame = DisplayNumber(-9) /\ frame4 = DisplayNumber4(-9))
    /\ frame # ClearDisplay
    /\ frame4 # ClearDisplay

C9_Witness ==
  /\ pc = "displayed"
  /\ number = -9 - ArgSpan
  /\ Shows(frame, 0, font_minus)
  /\ Shows(frame, 3, font[10])

\* The layout C10 claims, read off the frame of the 3-column font variant.
ColumnFontLayout(f, n) ==
  /\ InBounds(f)
  /\ n >= 10 =>
       /\ Shows(f, 0, font[(n \div 10) + 1])
       /\ Blank(f, 3)
       /\ Shows(f, 4, font[(n % 10) + 1])
  /\ (n >= 0 /\ n < 10) => \E c \in 0..5 : Shows(f, c, font[n + 1])
  /\ n < 0 =>
       /\ Shows(f, 0, font_minus)
       /\ Blank(f, 2)
       /\ Shows(f, 3, font[(-n) + 1])

\* The 4-row font variant puts the left glyph in columns 0-3 and the right
\* one in columns 4-7: a blank column between them is column 3 or column 4.
RowFontSeparated(f, n) ==
  /\ InBounds(f)
  /\ (n >= 10 \/ n < 0) => (Blank(f, 3) \/ Blank(f, 4))

\* C10 as claimed: for every n in [-9, 99] displayNumber writes only columns
\* 0..7, each glyph is the font table entry of its digit, and whenever two
\* glyphs are rendered an all-zero column lies between them (for n >= 10:
\* tens in columns 0-2, column 3 blank, ones in columns 4-6); of both
\* variants of displayNumber.
C10_AsClaimed ==
  (pc = "displayed" /\ number \in -9..99) =>
    /\ ColumnFontLayout(frame, number)
    /\ RowFontSeparated(frame4, number)

\* C10 of the 3-column font variant alone (lines 460-500), where it holds.
C10_ColumnVariantOnly ==
  (pc = "displayed" /\ number \in -9..99) => ColumnFontLayout(frame, number)

\* C10 of the 4-row font variant alone (lines 213-244), where it fails.
C10_RowVariantOnly ==
  (pc = "displayed" /\ number \in -9..99) => RowFontSeparated(frame4, number)

\* ------------------------------------------------------------ C11 .. C13
\* blank columns before the first lit column of f, and after the last one
BlankLeft(f) == Cardinality({c \in 0..7 : \A k \in 0..c : Blank(f, k)})

BlankRight(f) == Cardinality({c \in 0..7 : \A k \in c..7 : Blank(f, k)})

\* C11 as claimed: for 0 <= n < 10 displayNumber renders the single glyph
\* horizontally centred: as many blank columns to its left as to its right,
\* in both variants of displayNumber.
C11_AsClaimed ==
  (pc = "displayed" /\ number \in 0..9) =>
    /\ BlankLeft(frame) = BlankRight(frame)
    /\ BlankLeft(frame4) = BlankRight(frame4)

\* C11 amended: for 0 <= n < 10 the 3-column glyph of n is in columns 2-4,
\* with two blank columns to its left and three to its right; the 4-row
\* variant keeps the digit inside columns 2-5, columns 0, 1, 6 and 7 blank.
C11_SingleDigitAtColumnTwo ==
  (pc = "displayed" /\ number \in 0..9) =>
    /\ InBounds(frame) /\ InBounds(frame4)
    /\ Shows(frame, 2, font[number + 1])
    /\ BlankLeft(frame) = 2
    /\ BlankRight(frame) = 3
    /\ \A c \in {0, 1, 6, 7} : Blank(frame4, c)
    /\ frame4 # ClearDisplay

C11_Witness ==
  /\ pc = "displayed"
  /\ number = 7
  /\ Shows(frame, 2, font[8])
  /\ BlankLeft(frame) = 2
  /\ BlankRight(frame) = 3

\* C12: for -9 <= n < 0 displayNumber renders the two columns of the minus
\* glyph first, then one blank column, then the three columns of the font
\* glyph of abs(n) mod 10, and every remaining column is blank.
C12_NegativeLayout ==
  (pc = "displayed" /\ number \in -9..-1) =>
    /\ InBounds(frame)
    /\ Shows(frame, 0, font_minus)
    /\ Blank(frame, 2)
    /\ Shows(frame, 3, font[((0 - number) % 10) + 1])
    /\ Blank(frame, 6)
    /\ Blank(frame, 7)

C12_Witness ==
  /\ pc = "displayed"
  /\ number = -3
  /\ Shows(frame, 0, font_minus)
  /\ Shows(frame, 3, font[4])
  /\ BlankRight(frame) = 2

\* every LED lit
AllLit == (0..7) \X (0..7)

OtherFrames == {ClearDisplay, AllLit, DisplayNumber(88), DisplayNumber(-1)}

OtherFrames4 == {ClearDisplay, AllLit, DisplayNumber4(88), DisplayNumber4(-1)}

\* the columns displayNumber writes for n
Covered(n) ==
  IF n >= 10 THEN {0, 1, 2, 4, 5, 6}
  ELSE IF n >= 0 THEN {2, 3, 4}
  ELSE {0, 1, 3, 4, 5}

\* C13: the frame displayNumber(n) leaves depends only on n, not on the frame
\* shown before the call: called on any other frame it leaves the same
\* frame, and every column no glyph covers is blank.
C13_FrameDependsOnlyOnNumber ==
  (pc = "displayed") =>
    /\ \A p \in OtherFrames : DisplayNumberOn(p, number) = frame
    /\ \A p \in OtherFrames4 : DisplayNumber4On(p, number) = frame4
    /\ \A c \in (0..7) \ Covered(Clamp(number)) : Blank(frame, c)

C13_Witness ==
  /\ pc = "displayed"
  /\ shownBefore = DisplayNumber(88)
  /\ number = 1
  /\ frame = DisplayNumber(1)
  /\ Blank(frame, 0)
  /\ Blank(frame, 6)

\* ------------------------------------------------------------------- C14
\* displayNumber write by write: every LedControl call reaches the matrix
\* when it is made, so the matrix shows each intermediate frame.

\* the lc.setColumn calls of displayNumber, in the order it makes them
Writes(n) ==
  IF n >= 10
    THEN [i \in 1..6 |-> IF i <= 3 THEN <<i - 1, font[(n \div 10) + 1][i]>>
                                   ELSE <<i, font[(n % 10) + 1][i - 3]>>]
  ELSE IF n >= 0
    THEN [i \in 1..3 |-> <<i - 1 + SingleDigitColumn, font[(n % 10) + 1][i]>>]
  ELSE [i \in 1..5 |-> IF i <= 2 THEN <<i - 1, font_minus[i]>>
                                 ELSE <<i, font[(abs(n) % 10) + 1][i - 2]>>]

\* the clock and the three timestamps at power-on
ClockInit ==
  /\ now = 0
  /\ lastInteractionTime = 0
  /\ lastSensorReadTime = 0
  /\ lastDebounceTime = 0

\* the controller's other globals and the history, as they are at power-on
RestInit ==
  /\ upPin = LOW
  /\ downPin = LOW
  /\ currentTemperature = 0
  /\ currentHumidity = 0
  /\ userSetTemperature = InitialSetTemperature
  /\ displayShowsSetTemp = FALSE
  /\ lastUpButtonState = LOW
  /\ lastDownButtonState = LOW
  /\ mosfet = LOW
  /\ passes = 0
  /\ accepted = [b \in Buttons |-> 0]
  /\ lastAccepted = {}
  /\ edgeButtons = {}
  /\ pressKind = [b \in Buttons |-> "none"]
  /\ raw = [b \in Buttons |-> NoPress]
  /\ okReads = 0
  /\ attempts = <<>>
  /\ readOutcome = "skipped"
  /\ tempBefore = 0

InitDraw ==
  /\ pc = "clearDisplay"
  /\ number \in Numbers
  /\ frame \in PreviousFrames
  /\ frame4 = ClearDisplay
  /\ shownBefore = frame
  /\ ClockInit
  /\ RestInit
  /\ AuxInit

\* lc.clearDisplay(0)
DrawClear ==
  /\ pc = "clearDisplay"
  /\ frame' = clearDisplay(frame)
  /\ step' = 0
  /\ pc' = "setColumn"
  /\ UNCHANGED <<number, frame4, rest, shownBefore, scanCursor, scanTicks,
                 scanned, trueNow, trueStamp, decided>>

\* the next lc.setColumn(0, col, value)
DrawColumn ==
  /\ pc = "setColumn"
  /\ step < Len(Writes(Clamp(number)))
  /\ frame' = SetColumn(frame, Writes(Clamp(number))[step + 1][1],
                        Writes(Clamp(number))[step + 1][2])
  /\ step' = step + 1
  /\ UNCHANGED <<pc, number, frame4, rest, shownBefore, scanCursor, scanTicks,
                 scanned, trueNow, trueStamp, decided>>

\* displayNumber returns
DrawReturn ==
  /\ pc = "setColumn"
  /\ step = Len(Writes(Clamp(number)))
  /\ pc' = "drawn"
  /\ UNCHANGED <<number, frame, frame4, rest, aux>>

\* updateDisplay of the next pass calls displayNumber again
DrawCall ==
  /\ pc = "drawn"
  /\ \E n \in Numbers : number' = n
  /\ shownBefore' = frame
  /\ pc' = "clearDisplay"
  /\ UNCHANGED <<frame, frame4, rest, step, scanCursor, scanTicks, scanned,
                 trueNow, trueStamp, decided>>

NextDraw ==
  \/ DrawClear
  \/ DrawColumn
  \/ DrawReturn
  \/ DrawCall

SpecDraw == InitDraw /\ [][NextDraw]_vars

\* drawn write by write, displayNumber leaves the frame DisplayNumber gives
DrawnIsDisplayNumber == (pc = "drawn") => frame = DisplayNumber(number)

\* C14 as claimed: the display never observes a torn frame: at every point
\* during and between executions of displayNumber the visible frame is the
\* complete previous frame or the complete new frame, never a cleared or
\* partly written one.
C14_AsClaimed ==
  \/ frame = shownBefore
  \/ frame = DisplayNumber(number)

\* a partly written frame is visible: the tens digit of 20 alone
C14_TornFrameVisible ==
  /\ pc = "setColumn"
  /\ number = 20
  /\ shownBefore = DisplayNumber(88)
  /\ step = 3
  /\ Shows(frame, 0, font[3])
  /\ \A c \in 3..7 : Blank(frame, c)

\* ------------------------------------------------------------------- C15
\* The controller under a scripted environment: the sensor always answers
\* 20.0, the first pass comes when a read is due, then the increase button
\* is pressed and released ScenarioPresses times, every poll more than
\* DEBOUNCE_DELAY after the one before, then nothing is pressed.
ScenarioPasses == 1 + 2 * ScenarioPresses + ScenarioTail

LastPressPass == 2 * ScenarioPresses

ScenarioUp(p) == IF p \in 2..LastPressPass /\ p % 2 = 0 THEN HIGH ELSE LOW

ScenarioDeltas(p) ==
  IF p = 1 THEN {SENSOR_READ_INTERVAL}
  ELSE IF p <= LastPressPass + 1 THEN {DEBOUNCE_DELAY + 1, SENSOR_READ_INTERVAL}
  ELSE {DEBOUNCE_DELAY + 1, DISPLAY_TIMEOUT}

ScenarioReading == Val(200)

ScenarioEnvironment ==
  /\ pc = "idle"
  /\ passes < ScenarioPasses
  /\ \E d \in ScenarioDeltas(passes + 1) :
       /\ now' = now + d
       /\ upPin' = ScenarioUp(passes + 1)
       /\ downPin' = LOW
       /\ pressKind' = [b \in Buttons |->
            IF b = "up" THEN NextKind(b, upPin, ScenarioUp(passes + 1), now + d)
                        ELSE NextKind(b, downPin, LOW, now + d)]
       /\ raw' = [b \in Buttons |->
            IF b = "up" THEN NextRaw(b, upPin, ScenarioUp(passes + 1),
                                     lastUpButtonState, now + d)
                        ELSE NextRaw(b, downPin, LOW, lastDownButtonState, now + d)]
  /\ passes' = passes + 1
  /\ pc' = "handleButtons"
  /\ UNCHANGED <<ctrl, accepted, lastAccepted, edgeButtons, okReads, attempts,
                 readOutcome, tempBefore, aux>>

ScenarioReadSensor ==
  /\ pc = "readSensor"
  /\ ReadSensorCall(Val(500), ScenarioReading)
  /\ pc' = "controlMosfet"
  /\ UNCHANGED <<now, upPin, downPin, userSetTemperature, displayShowsSetTemp,
                 lastInteractionTime, lastUpButtonState, lastDownButtonState,
                 lastDebounceTime, mosfet, frame, frame4, number, passes,
                 accepted, lastAccepted, edgeButtons, pressKind, raw, aux>>

NextScenario ==
  \/ Setup
  \/ ScenarioEnvironment
  \/ HandleButtons
  \/ ScenarioReadSensor
  \/ ControlMosfet
  \/ UpdateDisplay

SpecScenario == Init /\ [][NextScenario]_vars

\* C15: starting with setpoint 25 and a successful reading of 20 the
\* actuator is on and the display shows 20; after five increase presses
\* accepted with debounce-safe spacing the setpoint is 30 and the display
\* shows 30 at once (after the k-th press 25 + k), the actuator staying on;
\* after the idle timeout with no further presses the display shows 20 again
\* while the setpoint remains 30.
C15_EndToEnd ==
  EndOfPass =>
    /\ currentTemperature = ScenarioReading.v
    /\ mosfet = HIGH
    /\ passes = 1 =>
         /\ userSetTemperature = InitialSetTemperature
         /\ number = 20
         /\ frame = DisplayNumber(20)
    /\ \A k \in 1..ScenarioPresses :
         passes \in {2 * k, 2 * k + 1} =>
           /\ accepted["up"] = k
           /\ userSetTemperature = InitialSetTemperature + k
           /\ number = InitialSetTemperature + k
           /\ frame = DisplayNumber(InitialSetTemperature + k)
           /\ (passes = 2 * k => lastInteractionTime = now)
    /\ passes > LastPressPass + 1 =>
         /\ accepted["up"] = ScenarioPresses
         /\ userSetTemperature = InitialSetTemperature + ScenarioPresses
         /\ (now - lastInteractionTime > DISPLAY_TIMEOUT) =>
              /\ ~displayShowsSetTemp
              /\ number = 20
              /\ frame = DisplayNumber(20)
         /\ (now - lastInteractionTime <= DISPLAY_TIMEOUT) =>
              number = userSetTemperature

C15_Witness ==
  /\ EndOfPass
  /\ passes > LastPressPass + 1
  /\ accepted["up"] = 5
  /\ userSetTemperature = 30
  /\ mosfet = HIGH
  /\ number = 20
  /\ frame = DisplayNumber(20)

C15_WitnessThirty ==
  /\ EndOfPass
  /\ passes = LastPressPass
  /\ userSetTemperature = 30
  /\ number = 30
  /\ mosfet = HIGH

\* ------------------------------------------------------------------- C16
\* C16 as claimed: setup() performs an initial sensor reading before the
\* first display update: when setup returns a read has been attempted, and
\* if the sensor answered, the number displayed is the measured temperature.
C16_AsClaimed ==
  (pc = "idle" /\ passes = 0) =>
    /\ readOutcome # "skipped"
    /\ Len(attempts) > 0
    /\ readOutcome = "ok" => number = round(currentTemperature)

\* what setup leaves: no read attempted, the display shows 0
C16_NoReadAtBoot ==
  /\ pc = "idle"
  /\ passes = 0
  /\ readOutcome = "skipped"
  /\ attempts = <<>>
  /\ number = 0
  /\ frame = DisplayNumber(0)

\* ------------------------------------------------------------------- C17
\* The display scanner is not among the sources; it is modelled from
\* sections 3 and 4.2 of the specification: a cursor over the eight columns
\* of the live frame, advanced modulo 8 by every scan tick.

\* the cursor advanced without the wraparound
NextCursorNoWrap(c) == c + 1

\* per tick, step (d): advance cursor mod 8
NextCursor(c) == (c + 1) % 8

Last8(s) == IF Len(s) <= 8 THEN s ELSE SubSeq(s, Len(s) - 7, Len(s))

\* the numbers whose frames are scanned
ScanNumbers == -1..8

InitScan ==
  /\ pc = "scan"
  /\ number \in ScanNumbers
  /\ frame = DisplayNumber(number)
  /\ frame4 = ClearDisplay
  /\ shownBefore = frame
  /\ ClockInit
  /\ RestInit
  /\ AuxInit

\* one scan tick: the column under the cursor is driven, the cursor advances
ScanTick ==
  /\ pc = "scan"
  /\ scanTicks < MaxTicks
  /\ scanned' = Last8(Append(scanned, scanCursor))
  /\ scanCursor' = NextCursor(scanCursor)
  /\ scanTicks' = scanTicks + 1
  /\ UNCHANGED <<pc, number, frame, frame4, rest, step, shownBefore, trueNow,
                 trueStamp, decided>>

\* the compositor publishes the frame of another number between two ticks
ScanPublish ==
  /\ pc = "scan"
  /\ \E n \in ScanNumbers \ {number} :
       /\ number' = n
       /\ frame' = DisplayNumber(n)
  /\ shownBefore' = frame
  /\ UNCHANGED <<pc, frame4, rest, step, scanCursor, scanTicks, scanned,
                 trueNow, trueStamp, decided>>

NextScan ==
  \/ ScanTick
  \/ ScanPublish

SpecScan == InitScan /\ [][NextScan]_vars

\* C17: the scan cursor visits each of the 8 columns exactly once in every 8
\* consecutive scan ticks, in a fixed order: it advances by one per tick and
\* wraps from 7 to 0, and no other operation resets or changes it.
C17_CursorCycles ==
  /\ [](/\ scanCursor \in 0..7
        /\ Len(scanned) = 8 => {scanned[i] : i \in 1..8} = 0..7
        /\ \A i \in 1..(Len(scanned) - 1) :
             scanned[i + 1] = (IF scanned[i] = 7 THEN 0 ELSE scanned[i] + 1))
  /\ [][/\ scanTicks' = scanTicks + 1 =>
             scanCursor' = (IF scanCursor = 7 THEN 0 ELSE scanCursor + 1)
        /\ scanTicks' = scanTicks => scanCursor' = scanCursor]_vars

C17_Witness ==
  /\ scanTicks >= 9
  /\ Len(scanned) = 8
  /\ scanned[1] = 1
  /\ scanned[7] = 7
  /\ scanned[8] = 0
  /\ scanCursor = 1
  /\ frame # shownBefore

\* ------------------------------------------------------------------- C18
\* the integer nearest to x tenths, halves away from zero
Nearest(x) ==
  CHOOSE k \in -100..100 :
    IF x >= 0 THEN (x - 10 * k) \in -5..4 ELSE (x - 10 * k) \in -4..5

\* C18: in any pass in which handleButtons accepts an edge, the number
\* updateDisplay renders at the end of that pass is the new setpoint
\* (saturated to [-9, 99] on the frame); in any pass that ends showing the
\* current reading, the number rendered is currentTemperature rounded.
C18_RenderedNumber ==
  EndOfPass =>
    /\ lastAccepted # {} =>
         /\ displayShowsSetTemp
         /\ number = userSetTemperature
         /\ frame = DisplayNumber(Clamp(userSetTemperature))
    /\ ~displayShowsSetTemp =>
         /\ number = Nearest(currentTemperature)
         /\ frame = DisplayNumber(Clamp(Nearest(currentTemperature)))

C18_Witness ==
  /\ EndOfPass
  /\ lastAccepted = {"up"}
  /\ currentTemperature = 296
  /\ userSetTemperature = 26
  /\ number = 26

C18_WitnessRounded ==
  /\ EndOfPass
  /\ ~displayShowsSetTemp
  /\ currentTemperature = -46
  /\ number = -5

\* ------------------------------------------------------------------- C19
\* both buttons show a rising edge to a poll that samples
BothRising ==
  /\ pc = "handleButtons"
  /\ now - lastDebounceTime > DEBOUNCE_DELAY
  /\ upPin = HIGH /\ lastUpButtonState = LOW
  /\ downPin = HIGH /\ lastDownButtonState = LOW

\* a poll within the debounce window of an edge accepted on button b alone
WithinWindowOf(b) ==
  /\ pc = "handleButtons"
  /\ edgeButtons = {b}
  /\ now - lastDebounceTime <= DEBOUNCE_DELAY

\* C19: when both buttons show a rising edge in the same poll, the setpoint
\* after the poll equals the setpoint before it (+1 then -1), yet both edges
\* are accepted: the mode becomes "showing setpoint" and lastInteractionTime
\* and the shared lastDebounceTime are set to the time of the poll; and an
\* edge accepted on one button suspends the sampling of the other button
\* too for the debounce window.
C19_BothEdgesCancel ==
  /\ [][BothRising =>
          /\ userSetTemperature' = userSetTemperature
          /\ accepted' = [b \in Buttons |-> accepted[b] + 1]
          /\ displayShowsSetTemp' = TRUE
          /\ lastInteractionTime' = now
          /\ lastDebounceTime' = now]_vars
  /\ [][\A b \in Buttons :
          WithinWindowOf(b) =>
            /\ LastSampled(Other(b))' = LastSampled(Other(b))
            /\ accepted' = accepted
            /\ lastDebounceTime' = lastDebounceTime]_vars

C19_Witness ==
  /\ pc = "readSensor"
  /\ lastAccepted = Buttons
  /\ accepted = [b \in Buttons |-> 1]
  /\ userSetTemperature = InitialSetTemperature
  /\ displayShowsSetTemp
  /\ lastInteractionTime = now
  /\ lastDebounceTime = now

\* the decrease button pressed within the window of an increase edge is not sampled
C19_WitnessSuspended ==
  /\ pc = "readSensor"
  /\ edgeButtons = {"up"}
  /\ lastAccepted = {}
  /\ now - lastDebounceTime \in 1..DEBOUNCE_DELAY
  /\ downPin = HIGH
  /\ lastDownButtonState = LOW

\* ------------------------------------------------------------------- C20
\* The three elapsed-time comparisons on a clock that wraps: the timestamps
\* are taken shortly before the clock overflows and the clock runs on across
\* the overflow; trueNow and trueStamp follow the same instants unbounded.

\* true time at which the timestamps are taken
WrapStamps == {0, Modulus - DISPLAY_TIMEOUT - 1, Modulus - SENSOR_READ_INTERVAL,
               Modulus - DEBOUNCE_DELAY, Modulus - 1}

\* true elapsed time followed, below the modulus
MaxElapsed == DISPLAY_TIMEOUT + DEBOUNCE_DELAY

InitWrap ==
  /\ pc = "compare"
  /\ \E s \in WrapStamps :
       /\ trueStamp = s
       /\ trueNow = s
       /\ now = s % Modulus
       /\ lastDebounceTime = s % Modulus
       /\ lastSensorReadTime = s % Modulus
       /\ lastInteractionTime = s % Modulus
  /\ number = 0
  /\ frame = ClearDisplay
  /\ frame4 = ClearDisplay
  /\ shownBefore = ClearDisplay
  /\ RestInit
  /\ step = 0
  /\ scanCursor = 0
  /\ scanTicks = 0
  /\ scanned = <<>>
  /\ decided = <<FALSE, FALSE, FALSE>>

\* millis() moves on, wrapping at the modulus
WrapAdvance ==
  /\ pc = "clock"
  /\ \E d \in Deltas :
       /\ trueNow + d - trueStamp <= MaxElapsed
       /\ trueNow' = trueNow + d
       /\ now' = (now + d) % Modulus
  /\ pc' = "compare"
  /\ UNCHANGED <<upPin, downPin, ctrl, hist, step, shownBefore, scanCursor,
                 scanTicks, scanned, trueStamp, decided>>

\* the comparisons of handleButtons, readSensor and updateDisplay
WrapCompare ==
  /\ pc = "compare"
  /\ decided' = <<DebounceOpen(now, lastDebounceTime),
                  SensorDue(now, lastSensorReadTime),
                  DisplayExpired(now, lastInteractionTime)>>
  /\ pc' = "clock"
  /\ UNCHANGED <<now, upPin, downPin, ctrl, hist, step, shownBefore, scanCursor,
                 scanTicks, scanned, trueNow, trueStamp>>

NextWrap ==
  \/ WrapAdvance
  \/ WrapCompare

SpecWrap == InitWrap /\ [][NextWrap]_vars

\* C20: the three elapsed-time comparisons are unsigned differences modulo
\* the width of the clock, so across a wraparound of millis() they decide
\* as an unbounded clock would, the true elapsed time being below the modulus.
C20_WrapSafeComparisons ==
  (pc = "clock") =>
    decided = <<trueNow - trueStamp > DEBOUNCE_DELAY,
                trueNow - trueStamp >= SENSOR_READ_INTERVAL,
                trueNow - trueStamp > DISPLAY_TIMEOUT>>

C20_Witness ==
  /\ pc = "clock"
  /\ trueStamp < Modulus
  /\ trueNow >= Modulus
  /\ now < lastDebounceTime
  /\ trueNow - trueStamp = SENSOR_READ_INTERVAL
  /\ decided = <<TRUE, TRUE, FALSE>>

====
